---- MODULE Spec2Model ----
(***************************************************************************)
(* Model of scripts/replace-prisma.py: a one-shot codemod that rewrites    *)
(* `new PrismaClient()` constructions to use a shared singleton import.    *)
(*                                                                         *)
(* Text is modelled as a sequence of lexemes.  Every lexeme stands for a   *)
(* fixed piece of text; the substring tests and regular expressions of the *)
(* script are modelled on lexeme sequences.  The lexemes are chosen so     *)
(* that every pattern of the script begins and ends on a lexeme boundary.  *)
(***************************************************************************)
EXTENDS Integers, Sequences, FiniteSets, TLC

VARIABLES
    os_name,            \* "posix" or "nt": fixes os.sep and os.linesep
    rootExists,         \* does apps/api-gateway/src exist
    disk,               \* path (relative to the root) -> bytes of the file
    bak,                \* path -> bytes of <path>.bak, or Absent
    pc,                 \* position of main() / replace_prisma_in_file()
    unscanned,          \* paths root.rglob('*.ts') has not yet yielded
    files_to_process,   \* main: the candidate list
    cur,                \* main: index of the candidate being processed
    updated_count,      \* main: counter
    content,            \* replace_prisma_in_file: local
    original_content,   \* replace_prisma_in_file: local
    rel_path,           \* replace_prisma_in_file: local (pieces of the string)
    prev_content,       \* history: content before the last substitution
    report,             \* history: progress lines printed in this run
    summary,            \* history: the summary line printed, or NoSummary
    exit_code,          \* process exit status, -1 while running
    error_printed,      \* history: the "Directory ... not found" line was printed
    run,                \* number of the current run of the tool
    pre,                \* history: the disk when the current run started
    pre_bak,            \* history: the backups when the current run started
    first,              \* history: the disk before the first run
    updated_before,     \* history: files updated by an earlier run
    overwritten,        \* history: files opened for writing in this run
    from_file,          \* calculate_relative_path: argument
    same_drive,         \* calculate_relative_path: from_file is on the cwd drive
    import_path         \* calculate_relative_path: result (pieces), or NoPath

vars == <<os_name, rootExists, disk, bak, pc, unscanned, files_to_process, cur,
          updated_count, content, original_content, rel_path, prev_content,
          report, summary, exit_code, error_printed, run, pre, pre_bak, first,
          updated_before,
          overwritten, from_file, same_drive, import_path>>

(***************************************************************************)
(* Bounds of the model.                                                    *)
(***************************************************************************)
MaxLen == 3        \* lexemes in a file of the single-file specification
MaxDepth == 3      \* directories below the root in the path specification
MaxRuns == 2       \* runs of the tool over the same tree

(***************************************************************************)
(* Lexemes.                                                                *)
(***************************************************************************)
LF == "<LF>"            \* "\n"
CR == "<CR>"            \* "\r" (only on disk: read() translates it)
SP == " "               \* horizontal white space
SEMI == ";"
CODE == "x"             \* any other code, free of every pattern
DECL == "const prisma = new PrismaClient()"
THISEQ == "this.prisma = "
NEWPC == "new PrismaClient()"
PRISMA == "prisma"
ORNEW == " || new PrismaClient()"
IMPPC == "import { PrismaClient } from '@prisma/client'"
IMPBR == "import { a } from 'a'"
IMPDEF == "import a from 'a'"

\* "import { prisma } from '<spec>'", the line the script inserts (49, 57)
SingletonImport(spec) == "import { prisma } from '" \o spec \o "'"

\* the three literals of the skip test (line 36)
RecognizedSpecs == {"../lib/prisma", "../../lib/prisma", "../../../lib/prisma"}

\* every specifier calculate_relative_path can return for the modelled trees
ImportSpecs ==
    RecognizedSpecs \cup {"./lib/prisma", "./prisma", "../prisma", ".", ".."}

\* lexemes whose text contains "import {"
BracedImports == {IMPPC, IMPBR} \cup {SingletonImport(s) : s \in ImportSpecs}

\* lexemes whose text contains "import "
ImportLexemes == BracedImports \cup {IMPDEF}

\* lexemes matched by \s
WhiteSpace == {SP, LF, CR}

(***************************************************************************)
(* File input and output in text mode (lines 32-33, 86-87, 90-91).         *)
(***************************************************************************)
RECURSIVE ReadText(_)
\* open(path, 'r', encoding='utf-8').read(): universal newlines turn "\r\n"
\* and a lone "\r" into "\n"
ReadText(bytes) ==
    IF bytes = <<>> THEN <<>>
    ELSE IF Head(bytes) = CR
         THEN IF Len(bytes) > 1 /\ bytes[2] = LF
              THEN <<LF>> \o ReadText(SubSeq(bytes, 3, Len(bytes)))
              ELSE <<LF>> \o ReadText(Tail(bytes))
         ELSE <<Head(bytes)>> \o ReadText(Tail(bytes))

\* os.linesep
LineSep(os) == IF os = "nt" THEN <<CR, LF>> ELSE <<LF>>

RECURSIVE WriteText(_, _)
\* open(path, 'w', encoding='utf-8').write(text): "\n" becomes os.linesep
WriteText(text, os) ==
    IF text = <<>> THEN <<>>
    ELSE (IF Head(text) = LF THEN LineSep(os) ELSE <<Head(text)>>)
         \o WriteText(Tail(text), os)

(***************************************************************************)
(* The tests and substitutions of replace_prisma_in_file.                  *)
(***************************************************************************)
\* smallest element of a non-empty set of integers
Min(S) == CHOOSE m \in S : \A n \in S : m <= n

\* SkipPredicate with a plausible slip: only the first literal is tested
SkipPredicate_OneDepth(text) ==
    \E i \in 1..Len(text) : text[i] = SingletonImport("../lib/prisma")

\* line 36: one of the three literals occurs in the text
SkipPredicate(text) ==
    \E i \in 1..Len(text) : \E s \in RecognizedSpecs : text[i] = SingletonImport(s)

\* line 116: 'new PrismaClient()' in text
ContainsConstruction(text) ==
    \E i \in 1..Len(text) : text[i] \in {NEWPC, DECL, ORNEW}

\* the text with `ins` put in after position i
InsertAfter(text, i, ins) ==
    SubSeq(text, 1, i) \o ins \o SubSeq(text, i + 1, Len(text))

\* line 46: "from '@prisma/client';" in content; the positions where it ends
PrismaClientImportEnds(text) ==
    {i \in 2..Len(text) : text[i - 1] = IMPPC /\ text[i] = SEMI}

\* line 53: "import {" in content
HasBracedImport(text) == \E i \in 1..Len(text) : text[i] \in BracedImports

\* line 56: the positions j where a match of  import .*?;\n  that starts at i
\* can end: the rest of the line up to a ";" that is followed by "\n"
ImportMatchEnds(text, i) ==
    {j \in (i + 2)..Len(text) :
        /\ text[j - 1] = SEMI
        /\ text[j] = LF
        /\ \A k \in (i + 1)..(j - 1) : text[k] # LF}

\* line 56: the starts of the matches of  import .*?;\n
ImportMatchStarts(text) ==
    {i \in 1..Len(text) : text[i] \in ImportLexemes /\ ImportMatchEnds(text, i) # {}}

\* lines 45-60: add the singleton import
InsertImport(text, spec) ==
    IF PrismaClientImportEnds(text) # {}
    THEN InsertAfter(text, Min(PrismaClientImportEnds(text)),
                     <<LF, SingletonImport(spec), SEMI>>)
    ELSE IF HasBracedImport(text)
         THEN IF ImportMatchStarts(text) # {}
              THEN InsertAfter(text,
                       Min(ImportMatchEnds(text, Min(ImportMatchStarts(text)))),
                       <<SingletonImport(spec), SEMI, LF>>)
              ELSE text
         ELSE text

\* first position at or after p that holds no white space (Len + 1 if none)
SkipWhite(text, p) ==
    Min({q \in p..(Len(text) + 1) : q = Len(text) + 1 \/ text[q] \notin WhiteSpace})

\* line 64: the last position of the match of
\*   ^\s*const prisma = new PrismaClient\(\);?\s*\n   (MULTILINE)
\* that starts at p, or 0 when there is none
DeclMatchEnd(text, p) ==
    IF p > Len(text) \/ ~(p = 1 \/ text[p - 1] = LF) THEN 0
    ELSE LET q == SkipWhite(text, p)
         IN  IF q > Len(text) \/ text[q] # DECL THEN 0
             ELSE LET r == IF q < Len(text) /\ text[q + 1] = SEMI THEN q + 2 ELSE q + 1
                      s == SkipWhite(text, r)
                      nl == {k \in r..(s - 1) : text[k] = LF}
                  IN  IF nl = {} THEN 0
                      ELSE CHOOSE k \in nl : \A n \in nl : n <= k

RECURSIVE RemoveDeclFrom(_, _)
\* re.sub scanning from position p: leftmost matches, not overlapping
RemoveDeclFrom(text, p) ==
    IF p > Len(text) THEN <<>>
    ELSE IF DeclMatchEnd(text, p) > 0
         THEN RemoveDeclFrom(text, DeclMatchEnd(text, p) + 1)
         ELSE <<text[p]>> \o RemoveDeclFrom(text, p + 1)

\* lines 62-68: remove the "const prisma = new PrismaClient()" lines
RemoveDecl(text) == RemoveDeclFrom(text, 1)

RECURSIVE RewriteFieldFrom(_, _)
RewriteFieldFrom(text, p) ==
    IF p > Len(text) THEN <<>>
    ELSE IF p < Len(text) /\ text[p] = THISEQ /\ text[p + 1] = NEWPC
         THEN <<THISEQ, PRISMA>> \o RewriteFieldFrom(text, p + 2)
         ELSE <<text[p]>> \o RewriteFieldFrom(text, p + 1)

\* lines 70-75: this.prisma = new PrismaClient()  ->  this.prisma = prisma
RewriteField(text) == RewriteFieldFrom(text, 1)

\* RewriteFallback with a plausible slip: the substitution is left out
RewriteFallback_LeftOut(text) == text

RECURSIVE RewriteFallbackFrom(_, _)
RewriteFallbackFrom(text, p) ==
    IF p > Len(text) THEN <<>>
    ELSE IF /\ p + 2 <= Len(text)
            /\ text[p] = THISEQ /\ text[p + 1] = PRISMA /\ text[p + 2] = ORNEW
         THEN <<THISEQ, PRISMA>> \o RewriteFallbackFrom(text, p + 3)
         ELSE <<text[p]>> \o RewriteFallbackFrom(text, p + 1)

\* lines 77-82: this.prisma = prisma || new PrismaClient()  ->  this.prisma = prisma
RewriteFallback(text) == RewriteFallbackFrom(text, 1)

\* lines 45-82: the four substitutions in the order of the script
Transform(text, spec) ==
    RewriteFallback(RewriteField(RemoveDecl(InsertImport(text, spec))))

(***************************************************************************)
(* Paths.  A path is the sequence of its components.                       *)
(***************************************************************************)
\* line 101: Path('apps/api-gateway/src')
SourceRoot == <<"apps", "api-gateway", "src">>

\* line 11: the default of to_file
DefaultToFile == SourceRoot \o <<"lib", "prisma.ts">>

\* os.sep
Sep(os) == IF os = "nt" THEN "\\" ELSE "/"

\* Path.with_suffix(''): the path without the extension of its last component
WithoutSuffix(path) ==
    LET name == path[Len(path)]
        stem == CASE name = "prisma.ts" -> "prisma"
                  [] name = "index.ts" -> "index"
                  [] name = "users.ts" -> "users"
                  [] name = "server.ts" -> "server"
                  [] OTHER -> name
    IN  SubSeq(path, 1, Len(path) - 1) \o <<stem>>

\* Path.parent
Parent(path) == SubSeq(path, 1, Len(path) - 1)

\* os.path.commonprefix of two component lists: its length
CommonLen(a, b) ==
    LET same == {n \in 0..Len(a) : n <= Len(b) /\ \A k \in 1..n : a[k] = b[k]}
    IN  CHOOSE n \in same : \A m \in same : m <= n

\* sep.join(names), kept in pieces: names and separators alternate
RECURSIVE JoinPieces(_, _)
JoinPieces(names, sep) ==
    IF Len(names) <= 1 THEN names
    ELSE <<Head(names), sep>> \o JoinPieces(Tail(names), sep)

\* os.path.relpath(path, start) for two paths on the same drive
RelPath(path, start, os) ==
    LET i == CommonLen(start, path)
        rel_list == [k \in 1..(Len(start) - i) |-> ".."] \o SubSeq(path, i + 1, Len(path))
    IN  IF rel_list = <<>> THEN <<".">> ELSE JoinPieces(rel_list, Sep(os))

\* str.replace(os.sep, '/') on a string kept in pieces
ReplaceSep(pieces, os) ==
    [k \in 1..Len(pieces) |-> IF pieces[k] = Sep(os) THEN "/" ELSE pieces[k]]

\* str.startswith('.'): the first piece is a name; it begins with a dot
StartsWithDot(pieces) == pieces[1] \in {".", ".."}

\* lines 11-26; same_drv is false when relpath raises ValueError (ntpath only)
calculate_relative_path(file, os, same_drv) ==
    IF os = "nt" /\ ~same_drv
    THEN <<"..", "/", "lib", "/", "prisma">>
    ELSE LET import_path0 == ReplaceSep(RelPath(WithoutSuffix(DefaultToFile), Parent(file), os), os)
         IN  IF ~StartsWithDot(import_path0)
             THEN <<".", "/">> \o import_path0
             ELSE import_path0

\* the string whose pieces are given
RECURSIVE Join(_)
Join(pieces) == IF pieces = <<>> THEN "" ELSE Head(pieces) \o Join(Tail(pieces))

\* Markers with a plausible slip: the '.spec.' marker is forgotten
Markers_WithoutSpec == {"test", "mock", "__fixtures__", ".test."}

\* line 111: the markers of test, mock and fixture files
Markers == {"test", "mock", "__fixtures__", ".spec.", ".test."}

\* the markers that occur in one path component (none contains a separator,
\* so a marker occurs in str(path) iff it occurs in a component)
MarkersIn(name) ==
    CASE name = "users.test.ts" -> {"test", ".test."}
      [] name = "users.spec.ts" -> {".spec."}
      [] name = "latest.ts" -> {"test"}
      [] name = "__mocks__" -> {"mock"}
      [] name = "__fixtures__" -> {"__fixtures__"}
      [] name = "tests" -> {"test"}
      [] OTHER -> {}

\* line 111: any(x in str(ts_file) for x in [...])
HasMarker(path) ==
    \E k \in 1..Len(path) : MarkersIn(path[k]) \cap Markers # {}

\* line 109: the glob *.ts matches the last component
IsTs(path) ==
    path[Len(path)] \in {"server.ts", "users.ts", "users.test.ts", "users.spec.ts",
                         "latest.ts", "db.ts", "index.ts", "prisma.ts"}

(***************************************************************************)
(* State of the run.                                                       *)
(***************************************************************************)
Absent == <<"<absent>">>            \* no such file
NoSummary == [updated |-> -1, total |-> -1]
NoPath == <<"<none>">>
BAD == "<bad-utf8>"                 \* a byte sequence that is not UTF-8

\* reading the bytes as UTF-8 text raises UnicodeDecodeError
Undecodable(bytes) == \E i \in 1..Len(bytes) : bytes[i] = BAD

\* the path main() passes on: root / relative path
FullPath(f) == SourceRoot \o f

\* the candidate replace_prisma_in_file is working on
CurFile == files_to_process[cur]

\* positions inside replace_prisma_in_file
FilePcs == {"read", "import", "decl", "field", "fallback", "compare",
            "backup_open", "backup_write", "file_open", "file_write"}

\* positions at which the process is alive
RunningPcs == {"start", "discover", "loop"} \cup FilePcs

pathVars == <<from_file, same_drive, import_path>>
histVars == <<run, pre, pre_bak, first, updated_before, error_printed>>

(***************************************************************************)
(* main()                                                                  *)
(***************************************************************************)
\* Start with a plausible slip: sys.exit(1) is missing after the diagnostic
Start_NoExit ==
    /\ pc = "start"
    /\ IF ~rootExists
       THEN /\ error_printed' = TRUE
            /\ pc' = "discover"
            /\ unscanned' = {f \in DOMAIN disk : IsTs(f)}
            /\ files_to_process' = <<>>
            /\ UNCHANGED exit_code
       ELSE /\ pc' = "discover"
            /\ unscanned' = {f \in DOMAIN disk : IsTs(f)}
            /\ files_to_process' = <<>>
            /\ UNCHANGED <<exit_code, error_printed>>
    /\ UNCHANGED <<os_name, rootExists, disk, bak, cur, updated_count, content,
                   original_content, rel_path, prev_content, report, summary,
                   overwritten>>
    /\ UNCHANGED <<run, pre, pre_bak, first, updated_before>> /\ UNCHANGED pathVars

\* lines 101-107: the root check
Start ==
    /\ pc = "start"
    /\ IF ~rootExists
       THEN /\ error_printed' = TRUE
            /\ pc' = "exited"
            /\ exit_code' = 1
            /\ UNCHANGED <<unscanned, files_to_process>>
       ELSE /\ pc' = "discover"
            /\ unscanned' = {f \in DOMAIN disk : IsTs(f)}
            /\ files_to_process' = <<>>
            /\ UNCHANGED <<exit_code, error_printed>>
    /\ UNCHANGED <<os_name, rootExists, disk, bak, cur, updated_count, content,
                   original_content, rel_path, prev_content, report, summary,
                   overwritten>>
    /\ UNCHANGED <<run, pre, pre_bak, first, updated_before>> /\ UNCHANGED pathVars

\* lines 109-119: one iteration of the discovery loop, for the file f
Discover(f) ==
    /\ pc = "discover"
    /\ f \in unscanned
    /\ unscanned' = unscanned \ {f}
    /\ files_to_process' =
          IF HasMarker(FullPath(f)) THEN files_to_process
          ELSE IF Undecodable(disk[f]) THEN files_to_process
          ELSE IF ContainsConstruction(ReadText(disk[f]))
               THEN Append(files_to_process, f)
               ELSE files_to_process
    /\ UNCHANGED <<os_name, rootExists, disk, bak, pc, cur, updated_count, content,
                   original_content, rel_path, prev_content, report, summary,
                   exit_code, overwritten>>
    /\ UNCHANGED histVars /\ UNCHANGED pathVars

\* lines 121-123: the discovery loop is over
Found ==
    /\ pc = "discover"
    /\ unscanned = {}
    /\ pc' = "loop"
    /\ updated_count' = 0
    /\ cur' = 0
    /\ UNCHANGED <<os_name, rootExists, disk, bak, unscanned, files_to_process,
                   content, original_content, rel_path, prev_content, report,
                   summary, exit_code, overwritten>>
    /\ UNCHANGED histVars /\ UNCHANGED pathVars

\* lines 124-125: the loop calls replace_prisma_in_file on the next candidate
CallReplace ==
    /\ pc = "loop"
    /\ cur < Len(files_to_process)
    /\ cur' = cur + 1
    /\ pc' = "read"
    /\ UNCHANGED <<os_name, rootExists, disk, bak, unscanned, files_to_process,
                   updated_count, content, original_content, rel_path,
                   prev_content, report, summary, exit_code, overwritten>>
    /\ UNCHANGED histVars /\ UNCHANGED pathVars

\* lines 128-129: the summary, and the normal end of the process
Finish ==
    /\ pc = "loop"
    /\ cur = Len(files_to_process)
    /\ summary' = [updated |-> updated_count, total |-> Len(files_to_process)]
    /\ exit_code' = 0
    /\ pc' = "done"
    /\ UNCHANGED <<os_name, rootExists, disk, bak, unscanned, files_to_process,
                   cur, updated_count, content, original_content, rel_path,
                   prev_content, report, overwritten>>
    /\ UNCHANGED histVars /\ UNCHANGED pathVars

(***************************************************************************)
(* replace_prisma_in_file(filepath)                                        *)
(***************************************************************************)
\* Return with a plausible slip: the loop counts every processed file
Return_CountsEveryFile(outcome) ==
    /\ report' = Append(report, [file |-> CurFile, outcome |-> outcome])
    /\ updated_count' = updated_count + 1
    /\ pc' = "loop"

\* the function returns to the loop of main (line 125-126) with `outcome`
Return(outcome) ==
    /\ report' = Append(report, [file |-> CurFile, outcome |-> outcome])
    /\ updated_count' = IF outcome = "updated" THEN updated_count + 1 ELSE updated_count
    /\ pc' = "loop"

\* lines 30-43: read the file, test for the singleton import
ReadFile ==
    /\ pc = "read"
    /\ content' = ReadText(disk[CurFile])
    /\ IF SkipPredicate(ReadText(disk[CurFile]))
       THEN /\ Return("skipped")
            /\ UNCHANGED <<original_content, rel_path, prev_content>>
       ELSE /\ original_content' = ReadText(disk[CurFile])
            /\ rel_path' = calculate_relative_path(FullPath(CurFile), os_name, TRUE)
            /\ prev_content' = ReadText(disk[CurFile])
            /\ pc' = "import"
            /\ UNCHANGED <<report, updated_count>>
    /\ UNCHANGED <<os_name, rootExists, disk, bak, unscanned, files_to_process,
                   cur, summary, exit_code, overwritten>>
    /\ UNCHANGED histVars /\ UNCHANGED pathVars

\* one substitution: content = re.sub(...), and on to the position `next`
Substitute(at, result, next) ==
    /\ pc = at
    /\ prev_content' = content
    /\ content' = result
    /\ pc' = next
    /\ UNCHANGED <<os_name, rootExists, disk, bak, unscanned, files_to_process,
                   cur, updated_count, original_content, rel_path, report,
                   summary, exit_code, overwritten>>
    /\ UNCHANGED histVars /\ UNCHANGED pathVars

\* lines 45-60
StepInsertImport == Substitute("import", InsertImport(content, Join(rel_path)), "decl")

\* lines 62-68
StepRemoveDecl == Substitute("decl", RemoveDecl(content), "field")

\* lines 70-75
StepRewriteField == Substitute("field", RewriteField(content), "fallback")

\* lines 77-82
StepRewriteFallback == Substitute("fallback", RewriteFallback(content), "compare")

\* lines 84, 95-97: write only when the text has changed
Compare ==
    /\ pc = "compare"
    /\ IF content # original_content
       THEN /\ pc' = "backup_open"
            /\ UNCHANGED <<report, updated_count>>
       ELSE Return("unchanged")
    /\ UNCHANGED <<os_name, rootExists, disk, bak, unscanned, files_to_process,
                   cur, content, original_content, rel_path, prev_content,
                   summary, exit_code, overwritten>>
    /\ UNCHANGED histVars /\ UNCHANGED pathVars

\* line 86: open(str(filepath) + '.bak', 'w') creates or truncates the backup
BackupOpen ==
    /\ pc = "backup_open"
    /\ bak' = [bak EXCEPT ![CurFile] = <<>>]
    /\ pc' = "backup_write"
    /\ UNCHANGED <<os_name, rootExists, disk, unscanned, files_to_process, cur,
                   updated_count, content, original_content, rel_path,
                   prev_content, report, summary, exit_code, overwritten>>
    /\ UNCHANGED histVars /\ UNCHANGED pathVars

\* line 87: f.write(original_content), and the file is closed
BackupWrite ==
    /\ pc = "backup_write"
    /\ bak' = [bak EXCEPT ![CurFile] = WriteText(original_content, os_name)]
    /\ pc' = "file_open"
    /\ UNCHANGED <<os_name, rootExists, disk, unscanned, files_to_process, cur,
                   updated_count, content, original_content, rel_path,
                   prev_content, report, summary, exit_code, overwritten>>
    /\ UNCHANGED histVars /\ UNCHANGED pathVars

\* line 90: open(filepath, 'w') truncates the file
FileOpen ==
    /\ pc = "file_open"
    /\ disk' = [disk EXCEPT ![CurFile] = <<>>]
    /\ overwritten' = overwritten \cup {CurFile}
    /\ pc' = "file_write"
    /\ UNCHANGED <<os_name, rootExists, bak, unscanned, files_to_process, cur,
                   updated_count, content, original_content, rel_path,
                   prev_content, report, summary, exit_code>>
    /\ UNCHANGED histVars /\ UNCHANGED pathVars

\* lines 91-94: f.write(content), the file is closed, the function returns True
FileWrite ==
    /\ pc = "file_write"
    /\ disk' = [disk EXCEPT ![CurFile] = WriteText(content, os_name)]
    /\ Return("updated")
    /\ UNCHANGED <<os_name, rootExists, bak, unscanned, files_to_process, cur,
                   content, original_content, rel_path, prev_content, summary,
                   exit_code, overwritten>>
    /\ UNCHANGED histVars /\ UNCHANGED pathVars

ReplaceStep ==
    \/ ReadFile
    \/ StepInsertImport
    \/ StepRemoveDecl
    \/ StepRewriteField
    \/ StepRewriteFallback
    \/ Compare
    \/ BackupOpen
    \/ BackupWrite
    \/ FileOpen
    \/ FileWrite

(***************************************************************************)
(* The environment.                                                        *)
(***************************************************************************)
\* an interrupt, or an I/O error nobody catches, ends the process where it is
Interrupt ==
    /\ pc \in RunningPcs
    /\ pc' = "crashed"
    /\ exit_code' = 1
    /\ UNCHANGED <<os_name, rootExists, disk, bak, unscanned, files_to_process,
                   cur, updated_count, content, original_content, rel_path,
                   prev_content, report, summary, overwritten>>
    /\ UNCHANGED histVars /\ UNCHANGED pathVars

\* files the run that just ended reported as updated
UpdatedNow == {report[k].file : k \in {j \in 1..Len(report) : report[j].outcome = "updated"}}

\* the tool is started again over the same tree
Rerun ==
    /\ pc \in {"done", "crashed", "exited"}
    /\ run < MaxRuns
    /\ run' = run + 1
    /\ pre' = disk
    /\ pre_bak' = bak
    /\ error_printed' = FALSE
    /\ updated_before' = updated_before \cup UpdatedNow
    /\ pc' = "start"
    /\ unscanned' = {}
    /\ files_to_process' = <<>>
    /\ cur' = 0
    /\ updated_count' = 0
    /\ content' = <<>>
    /\ original_content' = <<>>
    /\ rel_path' = NoPath
    /\ prev_content' = <<>>
    /\ report' = <<>>
    /\ summary' = NoSummary
    /\ exit_code' = -1
    /\ overwritten' = {}
    /\ UNCHANGED <<os_name, rootExists, disk, bak, first>>
    /\ UNCHANGED pathVars

(***************************************************************************)
(* The run of the tool over a tree of two files.                           *)
(***************************************************************************)
\* the trees: sets of paths below the root
Trees ==
    { {<<"server.ts">>, <<"routes", "users.ts">>},
      {<<"routes", "users.ts">>, <<"routes", "users.test.ts">>},
      {<<"routes", "users.ts">>, <<"__mocks__", "db.ts">>},
      {<<"server.ts">>, <<"routes", "users.spec.ts">>} }

\* the contents a file of the tree starts with
RunTexts ==
    { <<IMPPC, SEMI, LF, DECL, SEMI, LF>>,
      <<IMPPC, SEMI, CR, LF, DECL, SEMI, CR, LF>>,
      <<SingletonImport("../lib/prisma"), SEMI, LF, DECL, SEMI, LF>>,
      <<IMPPC, SEMI, LF, CODE, NEWPC, SEMI, LF>>,
      <<CODE, SEMI, LF>>,
      <<THISEQ, NEWPC, SEMI, LF>>,
      <<CODE, NEWPC, SEMI, LF>>,
      <<IMPDEF, SEMI, LF, DECL, SEMI>>,
      <<SingletonImport("../../lib/prisma"), SEMI, LF, THISEQ, NEWPC, SEMI, LF>>,
      <<IMPBR, SEMI, LF, THISEQ, PRISMA, ORNEW, SEMI, LF>>,
      <<BAD, NEWPC>> }

\* no call of calculate_relative_path on its own is under way
PathIdle ==
    /\ from_file = <<>>
    /\ same_drive = TRUE
    /\ import_path = NoPath

\* a process over the disk d that has found the candidates `found`
Fresh(d, found) ==
    /\ disk = d
    /\ bak = [f \in DOMAIN d |-> Absent]
    /\ unscanned = {}
    /\ files_to_process = found
    /\ cur = 0
    /\ updated_count = 0
    /\ content = <<>>
    /\ original_content = <<>>
    /\ rel_path = NoPath
    /\ prev_content = <<>>
    /\ report = <<>>
    /\ summary = NoSummary
    /\ exit_code = -1
    /\ error_printed = FALSE
    /\ run = 1
    /\ pre = d
    /\ pre_bak = [f \in DOMAIN d |-> Absent]
    /\ first = d
    /\ updated_before = {}
    /\ overwritten = {}

Init ==
    /\ os_name \in {"posix", "nt"}
    /\ rootExists \in BOOLEAN
    /\ \E tree \in Trees : \E d \in [tree -> RunTexts] : Fresh(d, <<>>)
    /\ pc = "start"
    /\ PathIdle

Next ==
    \/ Start
    \/ \E f \in DOMAIN disk : Discover(f)
    \/ Found
    \/ CallReplace
    \/ ReplaceStep
    \/ Finish
    \/ Interrupt
    \/ Rerun

Spec == Init /\ [][Next]_vars

(***************************************************************************)
(* replace_prisma_in_file on one file, for every short text.               *)
(***************************************************************************)
\* the lexemes a file is made of
FileLexemes ==
    {LF, CR, SP, SEMI, CODE, DECL, THISEQ, NEWPC, PRISMA, ORNEW, IMPPC, IMPBR, IMPDEF,
     SingletonImport("./lib/prisma")}
    \cup {SingletonImport(s) : s \in RecognizedSpecs}

\* the texts of at most n lexemes
Texts(n) == UNION {[1..k -> FileLexemes] : k \in 0..n}

\* the file of the single-file specification (the example of the documentation)
TheFile == <<"routes", "users.ts">>

InitFile ==
    /\ os_name \in {"posix", "nt"}
    /\ rootExists = TRUE
    /\ \E text \in Texts(MaxLen) : Fresh([f \in {TheFile} |-> text], <<TheFile>>)
    /\ pc = "loop"
    /\ PathIdle

NextFile ==
    \/ CallReplace
    \/ ReplaceStep
    \/ Finish

SpecFile == InitFile /\ [][NextFile]_vars

(***************************************************************************)
(* calculate_relative_path on its own, for every source path of bounded    *)
(* depth below the root.                                                   *)
(***************************************************************************)
DirNames == {"lib", "prisma", "routes"}

\* the directories of at most n levels below the root
DirsBelowRoot(n) == UNION {[1..k -> DirNames] : k \in 0..n}

InitPath ==
    /\ os_name \in {"posix", "nt"}
    /\ same_drive \in BOOLEAN
    /\ (os_name = "posix" => same_drive)
    /\ \E dirs \in DirsBelowRoot(MaxDepth) : \E name \in {"index.ts", "prisma.ts"} :
          from_file = SourceRoot \o dirs \o <<name>>
    /\ import_path = NoPath
    /\ rootExists = TRUE
    /\ Fresh(<<>>, <<>>)
    /\ pc = "path"

\* rel_path = calculate_relative_path(filepath)
CalcPath ==
    /\ pc = "path"
    /\ import_path = NoPath
    /\ import_path' = calculate_relative_path(from_file, os_name, same_drive)
    /\ UNCHANGED <<os_name, rootExists, disk, bak, pc, unscanned, files_to_process,
                   cur, updated_count, content, original_content, rel_path,
                   prev_content, report, summary, exit_code, overwritten,
                   from_file, same_drive>>
    /\ UNCHANGED histVars

NextPath == CalcPath

SpecPath == InitPath /\ [][NextPath]_vars

(***************************************************************************)
(* Vocabulary of the properties.  These definitions restate what the       *)
(* documentation says; they use none of the operators above that model     *)
(* the tests and substitutions of the script.                              *)
(***************************************************************************)
\* the lines of a text: the pieces between its newlines
RECURSIVE SplitLines(_)
SplitLines(text) ==
    IF \A i \in 1..Len(text) : text[i] # LF THEN <<text>>
    ELSE LET n == CHOOSE i \in 1..Len(text) :
                     text[i] = LF /\ \A k \in 1..(i - 1) : text[k] # LF
         IN  <<SubSeq(text, 1, n - 1)>> \o SplitLines(SubSeq(text, n + 1, Len(text)))

\* a line without its leading and trailing white space
RECURSIVE Strip(_)
Strip(line) ==
    IF line = <<>> THEN line
    ELSE IF Head(line) = SP THEN Strip(Tail(line))
    ELSE IF line[Len(line)] = SP THEN Strip(SubSeq(line, 1, Len(line) - 1))
    ELSE line

\* the singleton import lines of the three recognized depths, written out
RecognizedImportLexemes ==
    {"import { prisma } from '../lib/prisma'",
     "import { prisma } from '../../lib/prisma'",
     "import { prisma } from '../../../lib/prisma'"}

\* the text holds a recognized singleton import
HasRecognizedImport(text) == \E i \in 1..Len(text) : text[i] \in RecognizedImportLexemes

\* the progress lines that say "updated"
UpdatedLines == {k \in 1..Len(report) : report[k].outcome = "updated"}

\* the k-th candidate has been through replace_prisma_in_file's skip test
PastSkipTest(k) == k < cur \/ (k = cur /\ pc # "read")

(***************************************************************************)
(* C2.  A candidate whose text already holds a recognized singleton import *)
(* (depth one, two or three) is left byte-identical by                     *)
(* replace_prisma_in_file, gets no backup, is reported as skipped, and the *)
(* function returns at once without the file being counted as updated,     *)
(* whatever else the text holds.                                           *)
(***************************************************************************)
C2_SkipLeavesFileAlone ==
    \A k \in 1..Len(files_to_process) :
        LET f == files_to_process[k]
        IN  (HasRecognizedImport(ReadText(pre[f])) /\ PastSkipTest(k)) =>
                /\ disk[f] = pre[f]
                /\ bak[f] = pre_bak[f]
                /\ Len(report) >= k
                /\ report[k] = [file |-> f, outcome |-> "skipped"]
                /\ (k = cur => pc \notin FilePcs)
                /\ k \notin UpdatedLines
                /\ updated_count <= Cardinality({j \in 1..Len(report) : report[j].outcome # "skipped"})

\* a file that holds a declaration line the transform would remove, and
\* after it a recognized import, has been skipped
C2_Witness ==
    /\ pc = "loop"
    /\ cur = 1
    /\ pre[files_to_process[1]] = <<DECL, LF, "import { prisma } from '../../lib/prisma'">>
    /\ disk = pre
    /\ report = <<[file |-> files_to_process[1], outcome |-> "skipped"]>>

(***************************************************************************)
(* C5.  Import insertion: if the text holds an import of @prisma/client,   *)
(* exactly one singleton import line is inserted right after the first     *)
(* such import line; otherwise, if the text holds an import statement of   *)
(* any kind, one is inserted right after the first import line; otherwise  *)
(* nothing is inserted.                                                    *)
(***************************************************************************)
\* the lexemes that are import statements
ImportStatements ==
    {IMPPC, IMPBR, IMPDEF, "import { prisma } from './lib/prisma'"} \cup RecognizedImportLexemes

\* the lines that hold one of the lexemes of S
LinesWith(lines, S) ==
    {n \in 1..Len(lines) : \E i \in 1..Len(lines[n]) : lines[n][i] \in S}

\* the lines with `line` put in after line n
InsertLineAfter(lines, n, line) ==
    SubSeq(lines, 1, n) \o <<line>> \o SubSeq(lines, n + 1, Len(lines))

\* what the documentation says the insertion yields
ExpectedAfterInsertion(text, line) ==
    LET lines == SplitLines(text)
        pc_lines == LinesWith(lines, {IMPPC})
        any_lines == LinesWith(lines, ImportStatements)
    IN  IF pc_lines # {}
        THEN InsertLineAfter(lines, CHOOSE n \in pc_lines : \A m \in pc_lines : n <= m, line)
        ELSE IF any_lines # {}
             THEN InsertLineAfter(lines, CHOOSE n \in any_lines : \A m \in any_lines : n <= m, line)
             ELSE lines

C5_ImportInsertedAfterFirstImport ==
    pc = "decl" =>
        SplitLines(content) =
            ExpectedAfterInsertion(prev_content,
                                   <<"import { prisma } from '../lib/prisma'", SEMI>>)

(***************************************************************************)
(* C6.  Declaration removal: every line that, white space aside, is        *)
(* `const prisma = new PrismaClient()` with or without a semicolon is      *)
(* removed, wherever it stands (first, middle or last line), and no other  *)
(* line is removed or altered by this step.                                *)
(***************************************************************************)
IsDeclLine(line) == Strip(line) \in {<<DECL>>, <<DECL, SEMI>>}

RECURSIVE WithoutDeclLines(_)
WithoutDeclLines(lines) ==
    IF lines = <<>> THEN <<>>
    ELSE (IF IsDeclLine(Head(lines)) THEN <<>> ELSE <<Head(lines)>>)
         \o WithoutDeclLines(Tail(lines))

C6_OnlyDeclLinesRemoved ==
    pc = "field" => SplitLines(content) = WithoutDeclLines(SplitLines(prev_content))

(***************************************************************************)
(* C7.  Field and fallback rewrites: every `this.prisma = new              *)
(* PrismaClient()` and every `this.prisma = prisma || new PrismaClient()`  *)
(* of the input has become `this.prisma = prisma`, and the text around     *)
(* each match is unchanged; the output holds neither pattern.              *)
(***************************************************************************)
RECURSIVE EachMatchRewritten(_)
\* every occurrence of either pattern replaced, the rest kept as it is
EachMatchRewritten(text) ==
    IF text = <<>> THEN <<>>
    ELSE IF Len(text) >= 2 /\ text[1] = THISEQ /\ text[2] = NEWPC
         THEN <<THISEQ, PRISMA>> \o EachMatchRewritten(SubSeq(text, 3, Len(text)))
    ELSE IF Len(text) >= 3 /\ text[1] = THISEQ /\ text[2] = PRISMA /\ text[3] = ORNEW
         THEN <<THISEQ, PRISMA>> \o EachMatchRewritten(SubSeq(text, 4, Len(text)))
    ELSE <<Head(text)>> \o EachMatchRewritten(Tail(text))

\* neither pattern occurs in the text
NoFieldPattern(text) ==
    /\ \A i \in 2..Len(text) : ~(text[i - 1] = THISEQ /\ text[i] = NEWPC)
    /\ \A i \in 3..Len(text) :
          ~(text[i - 2] = THISEQ /\ text[i - 1] = PRISMA /\ text[i] = ORNEW)

RECURSIVE RewrittenInSequence(_)
RewrittenInSequence(text) ==
    IF text = <<>> THEN <<>>
    ELSE IF Len(text) >= 3 /\ text[1] = THISEQ /\ text[2] = NEWPC /\ text[3] = ORNEW
         THEN <<THISEQ, PRISMA>> \o RewrittenInSequence(SubSeq(text, 4, Len(text)))
    ELSE IF Len(text) >= 2 /\ text[1] = THISEQ /\ text[2] = NEWPC
         THEN <<THISEQ, PRISMA>> \o RewrittenInSequence(SubSeq(text, 3, Len(text)))
    ELSE IF Len(text) >= 3 /\ text[1] = THISEQ /\ text[2] = PRISMA /\ text[3] = ORNEW
         THEN <<THISEQ, PRISMA>> \o RewrittenInSequence(SubSeq(text, 4, Len(text)))
    ELSE <<Head(text)>> \o RewrittenInSequence(Tail(text))

MarkedPath(f) ==
    \E k \in 1..Len(f) :
        f[k] \in {"users.test.ts", "users.spec.ts", "latest.ts", "__mocks__",
                  "__fixtures__", "tests"}

\* the bytes hold no `new PrismaClient()`
LacksConstruction(bytes) ==
    \A i \in 1..Len(bytes) : bytes[i] \notin {NEWPC, DECL, ORNEW}

\* the .ts files of the tree that are candidates as the run starts
Candidates ==
    {f \in DOMAIN disk :
        IsTs(f) /\ ~MarkedPath(f) /\ ~Undecodable(pre[f]) /\ ~LacksConstruction(pre[f])}

\* the loop of main has called replace_prisma_in_file on f in this run
Reached(f) == \E k \in 1..cur : files_to_process[k] = f

\* number of singleton import lines in the bytes
SingletonImports(bytes) ==
    Cardinality({i \in 1..Len(bytes) :
        bytes[i] \in RecognizedImportLexemes \cup {"import { prisma } from './lib/prisma'"}})

(***************************************************************************)
(* C1.  At every point of a run, for every file under the root: the file   *)
(* still holds its pre-run content, or <path>.bak holds the pre-run        *)
(* content verbatim.  Files the run has not reached hold their pre-run     *)
(* content and have no backup written by this run.                         *)
(***************************************************************************)
C1_BackupHoldsPreRunContent ==
    \A f \in DOMAIN disk :
        /\ disk[f] = pre[f] \/ bak[f] = pre[f]
        /\ ~Reached(f) => (disk[f] = pre[f] /\ bak[f] = pre_bak[f])

(***************************************************************************)
(* C3.  A .ts file whose path holds an excluded marker, or whose text      *)
(* lacks `new PrismaClient()`, is never modified by a run, gets no backup, *)
(* and is not part of the candidate total of the summary.                  *)
(***************************************************************************)
C3_ExcludedFilesUntouched ==
    \A f \in DOMAIN disk :
        (IsTs(f) /\ (MarkedPath(f) \/ LacksConstruction(pre[f]))) =>
            /\ disk[f] = pre[f]
            /\ bak[f] = pre_bak[f]
            /\ \A k \in 1..Len(files_to_process) : files_to_process[k] # f
            /\ summary # NoSummary => summary.total <= Cardinality(Candidates)

\* a run has completed in which a file in a marked path, holding text the
\* transform would change, was passed over while the other file was updated
C3_Witness ==
    /\ pc = "done"
    /\ \E f \in DOMAIN disk :
          /\ MarkedPath(f)
          /\ pre[f] = <<IMPPC, SEMI, LF, DECL, SEMI, LF>>
          /\ disk[f] = pre[f]
    /\ summary = [updated |-> 1, total |-> 1]

(***************************************************************************)
(* C4.  If the root directory does not exist, main prints a diagnostic and *)
(* ends with a non-zero exit status before any file is read, backed up or  *)
(* written; no discovery, transform or summary step runs.                  *)
(***************************************************************************)
C4_MissingRootEndsTheRun ==
    ~rootExists =>
        /\ pc \in {"start", "exited", "crashed"}
        /\ pc = "exited" => (error_printed /\ exit_code = 1)
        /\ exit_code # 0
        /\ disk = first
        /\ \A f \in DOMAIN bak : bak[f] = Absent
        /\ unscanned = {} /\ files_to_process = <<>> /\ cur = 0
        /\ content = <<>> /\ report = <<>> /\ summary = NoSummary

C4_Witness ==
    /\ ~rootExists
    /\ pc = "exited"
    /\ error_printed
    /\ exit_code = 1
    /\ \E f \in DOMAIN disk : ~LacksConstruction(disk[f]) /\ ~MarkedPath(f)

(***************************************************************************)
(* C9.  In a run that completes, every candidate is processed exactly      *)
(* once, in sequence, with exactly one of the three outcomes; a file is    *)
(* reported updated iff its transformed text differs from its original     *)
(* text and it was overwritten; the updated count of the summary is the    *)
(* number of files reported updated and is at most the candidate total,    *)
(* which is the number of files discovered.                                *)
(***************************************************************************)
C9_EveryCandidateReportedOnce ==
    pc = "done" =>
        /\ Len(report) = Len(files_to_process)
        /\ \A k \in 1..Len(report) :
              LET f == files_to_process[k]
                  text == ReadText(pre[f])
                  spec == Join(calculate_relative_path(FullPath(f), os_name, TRUE))
              IN  /\ report[k].file = f
                  /\ report[k].outcome \in {"skipped", "updated", "unchanged"}
                  /\ \A j \in 1..Len(report) : j # k => files_to_process[j] # f
                  /\ report[k].outcome = "updated" <=>
                        (f \in overwritten /\ Transform(text, spec) # text)
                  /\ report[k].outcome = "skipped" <=> HasRecognizedImport(text)
        /\ summary.updated = Cardinality(UpdatedLines)
        /\ summary.updated <= summary.total
        /\ summary.total = Len(files_to_process)
        /\ summary.total = Cardinality(Candidates)
        /\ {files_to_process[k] : k \in 1..Len(files_to_process)} = Candidates
        /\ exit_code = 0

\* a completed run over two candidates with two different outcomes
C9_Witness ==
    /\ pc = "done"
    /\ Len(report) = 2
    /\ {report[1].outcome, report[2].outcome} = {"updated", "skipped"}
    /\ summary = [updated |-> 1, total |-> 2]

(***************************************************************************)
(* C10.  Re-running is safe: a file an earlier run updated is not modified *)
(* again by a later run over the same tree, no second singleton import is  *)
(* added, and its .bak still holds the content the file had before the     *)
(* first run.  (The backup is compared as text, so that the newline        *)
(* translation of C1 is not counted a second time here.)                   *)
(***************************************************************************)
C10_RerunLeavesUpdatedFiles ==
    \A f \in updated_before :
        /\ disk[f] = pre[f]
        /\ SingletonImports(disk[f]) <= 1
        /\ ReadText(bak[f]) = ReadText(first[f])

(***************************************************************************)
(* C8.  calculate_relative_path: for every source file under the root, at  *)
(* any depth, the specifier uses only forward slashes, begins with ./ or   *)
(* ../, has no .ts extension and resolves from the directory of the source *)
(* to apps/api-gateway/src/lib/prisma; one directory below the root (such  *)
(* as routes/) it is exactly ../lib/prisma.                                *)
(***************************************************************************)
\* the directory reached from `dir` by following the pieces of a specifier
RECURSIVE Resolve(_, _)
Resolve(dir, pieces) ==
    IF pieces = <<>> THEN dir
    ELSE IF Head(pieces) \in {"/", "."} THEN Resolve(dir, Tail(pieces))
    ELSE IF Head(pieces) = ".." THEN Resolve(SubSeq(dir, 1, Len(dir) - 1), Tail(pieces))
    ELSE Resolve(Append(dir, Head(pieces)), Tail(pieces))

C8_SpecifierIsRelativeAndResolves ==
    (import_path # NoPath /\ same_drive) =>
        LET dir == SubSeq(from_file, 1, Len(from_file) - 1)
        IN  /\ \A k \in 1..Len(import_path) : import_path[k] # "\\"
            /\ Len(import_path) >= 2
            /\ import_path[1] \in {".", ".."}
            /\ import_path[2] = "/"
            /\ import_path[Len(import_path)] # "prisma.ts"
            /\ Resolve(dir, import_path) = <<"apps", "api-gateway", "src", "lib", "prisma">>
            /\ (Len(dir) = 4 /\ dir[4] # "lib") =>
                  import_path = <<"..", "/", "lib", "/", "prisma">>

====
